---- MODULE Spec2Model ----
(***************************************************************************)
(* Connection admission and lifecycle control plane of the secured         *)
(* WebSocket test server (src/server.js).                                  *)
(*                                                                         *)
(* One action per event-loop callback of server.js.  Node runs callbacks   *)
(* to completion on a single thread, so every action is atomic.  Time is   *)
(* the value Date.now() returns, in model time units; the durations of     *)
(* CONFIG are scaled to it.  A one-shot timer (setTimeout) never fires      *)
(* before its due time, and fires before the clock moves past it, after    *)
(* any callbacks that run at the same instant.  The two recurring timers   *)
(* (setInterval) are armed flags whose callbacks may run whenever they are *)
(* armed.                                                                  *)
(***************************************************************************)
EXTENDS Integers, Sequences, FiniteSets, TLC

\* ------------------------------------------------------------------ bounds
\* the whole server
MaxTime == 2
MaxAttempts == 2
MaxMessages == 2
\* the admission and registry callbacks alone
AdmTime == 2
AdmAttempts == 3
\* the shutdown paths alone
LifeTime == 3
LifeAttempts == 2
\* the rate limiter's callbacks alone
RateTime == 2
RateAttempts == 1
RateMessages == 4
\* the connection timeout, with messages and the close handshake
ExpTime == 2
ExpAttempts == 1
ExpMessages == 1
\* the registry under every callback that touches a connection
RegTime == 2
RegAttempts == 2
RegMessages == 1
\* the recurring timers and the termination signal
DrainTime == 3
DrainAttempts == 1
DrainMessages == 1
\* the heartbeat among open and closing sockets
BeatTime == 2
BeatAttempts == 2
BeatMessages == 1
\* two connections that share an address
ShareTime == 1
ShareAttempts == 2
ShareMessages == 3
\* the frames of an address before and after a sweep
TrTime == 3
TrAttempts == 1
TrMessages == 3
\* the sweep of the rate windows
SweepTime == 3
SweepAttempts == 2
SweepMessages == 2
\* retirement, with every way the process ends
RetTime == 2
RetAttempts == 1

\* ----------------------------------------------------- CONFIG (lines 13-32)
AUTH_TOKEN == "test123"
MAX_CONNECTIONS == 2
CONNECTION_TIMEOUT_MS == 2
RATE_LIMIT_MESSAGES == 2
RATE_LIMIT_WINDOW_MS == 1
AUTO_SHUTDOWN_MS == 2
IP_WHITELIST == {"A"}
\* delay of the manual shutdown, setTimeout(..., 5000)
ADMIN_SHUTDOWN_DELAY_MS == 1
\* securityState.startTime
startTime == 0

\* ------------------------------------------------------------ input domains
Max(a, b) == IF a >= b THEN a ELSE b
Undefined == "undefined"
\* JSON values of /health: null, and a number
Null == <<"null">>
Number(n) == <<"number", n>>
IPs == {"A", "C"}
\* values of the token query parameter: the right one, one that differs in
\* case only, and none at all
Tokens == {"test123", "TEST123", Undefined}
\* Authorization header values, as sequences of words
AuthHeaders == {<<>>, <<"Bearer", "test123">>, <<"test123">>, <<"Bearer", "TEST123">>}
\* inbound frames: one that JSON.parse accepts, one it throws on
Payloads == {"{\"a\":1}", "hello"}
ClientIds == 1..Max(MaxAttempts, Max(AdmAttempts, RateAttempts))

VARIABLES
    now,                      \* Date.now()
    phase,                    \* "Running" | "Draining" | "Stopped"
    config,                   \* CONFIG.ENABLE_AUTO_SHUTDOWN, CONFIG.ENABLE_IP_WHITELIST
    connections,              \* securityState.connections: clientId -> info
    rateLimits,               \* securityState.rateLimits: ip -> {count, windowStart}
    connectionCount,          \* securityState.connectionCount
    totalConnectionAttempts,  \* securityState.totalConnectionAttempts
    rejectedConnections,      \* securityState.rejectedConnections
    connectionIdCounter,      \* connectionIdCounter
    clients,                  \* wss.clients: the sockets, with the closure's clientIP
    timeouts,                 \* pending per-connection setTimeout: timeoutId -> due time
    shutdownTimer,            \* the auto-shutdown setTimeout is pending
    adminTimers,              \* due times of the pending manual-shutdown setTimeouts
    heartbeatInterval,        \* the heartbeat setInterval is armed
    cleanupInterval,          \* the rate-limit cleanup setInterval is armed
    handled,                  \* history: the number of frames handled so far
    logging,                  \* history: whether msgLog is kept
    msgLog,                   \* history: per ip, the arrival time and outcome of each frame
    ev                        \* history: the callback that ran last and what it did

vars == <<now, phase, config, connections, rateLimits, connectionCount,
          totalConnectionAttempts, rejectedConnections, connectionIdCounter,
          clients, timeouts, shutdownTimer, adminTimers, heartbeatInterval,
          cleanupInterval, handled, logging, msgLog, ev>>

NoEvent == [kind |-> "none"]


\* ----------------------------------------------------------- pure functions

\* validateToken: query.token === CONFIG.AUTH_TOKEN
validateToken_AnyCase(token) == token \in {"test123", "TEST123"}
validateToken(token) == token = AUTH_TOKEN

\* isIPWhitelisted
isIPWhitelisted_Disabled(ip) == TRUE
isIPWhitelisted(ip) ==
    IF ~config.ENABLE_IP_WHITELIST THEN TRUE ELSE ip \in IP_WHITELIST

\* JSON.parse(data) returns a value; otherwise it throws
ParsesAsJSON(data) == data \in {"{\"a\":1}", "1"}

\* header.replace('Bearer ', ''): the first occurrence is removed
RECURSIVE RemoveFirst(_, _)
RemoveFirst(s, w) ==
    IF s = <<>> THEN <<>>
    ELSE IF Head(s) = w THEN Tail(s)
    ELSE <<Head(s)>> \o RemoveFirst(Tail(s), w)

\* req.query.token || req.headers.authorization?.replace('Bearer ', '')
AdminToken_HeaderFirst(query, header) ==
    IF header # <<>> /\ Len(RemoveFirst(header, "Bearer")) = 1
    THEN RemoveFirst(header, "Bearer")[1]
    ELSE query
AdminToken(query, header) ==
    IF query # Undefined THEN query
    ELSE IF header = <<>> THEN Undefined
    ELSE LET rest == RemoveFirst(header, "Bearer")
         IN  IF Len(rest) = 1 THEN rest[1] ELSE Undefined

\* /health: uptime.autoShutdownIn
Uptime == now - startTime
AutoShutdownIn_Always ==
    Number(Max(0, AUTO_SHUTDOWN_MS - Uptime))
AutoShutdownIn ==
    IF config.ENABLE_AUTO_SHUTDOWN
    THEN Number(Max(0, AUTO_SHUTDOWN_MS - Uptime))
    ELSE Null

\* ------------------------------------------------- operations on the state

\* verifyClient: its result and the counters it leaves behind
verifyClient_NoCount(ip, token) ==
    LET total == totalConnectionAttempts + 1 IN
    IF connectionCount >= MAX_CONNECTIONS THEN
        [result |-> FALSE, reason |-> "capacity",
         totalConnectionAttempts |-> total,
         rejectedConnections |-> rejectedConnections + 1]
    ELSE IF ~isIPWhitelisted(ip) THEN
        [result |-> FALSE, reason |-> "not_whitelisted",
         totalConnectionAttempts |-> total,
         rejectedConnections |-> rejectedConnections]
    ELSE IF ~validateToken(token) THEN
        [result |-> FALSE, reason |-> "bad_token",
         totalConnectionAttempts |-> total,
         rejectedConnections |-> rejectedConnections + 1]
    ELSE
        [result |-> TRUE, reason |-> "accept",
         totalConnectionAttempts |-> total,
         rejectedConnections |-> rejectedConnections]
verifyClient_NoCapacity(ip, token) ==
    LET total == totalConnectionAttempts + 1 IN
    IF ~isIPWhitelisted(ip) THEN
        [result |-> FALSE, reason |-> "not_whitelisted",
         totalConnectionAttempts |-> total,
         rejectedConnections |-> rejectedConnections + 1]
    ELSE IF ~validateToken(token) THEN
        [result |-> FALSE, reason |-> "bad_token",
         totalConnectionAttempts |-> total,
         rejectedConnections |-> rejectedConnections + 1]
    ELSE
        [result |-> TRUE, reason |-> "accept",
         totalConnectionAttempts |-> total,
         rejectedConnections |-> rejectedConnections]
verifyClient_CountsAccepted(ip, token) ==
    IF connectionCount >= MAX_CONNECTIONS THEN
        [result |-> FALSE, reason |-> "capacity",
         totalConnectionAttempts |-> totalConnectionAttempts,
         rejectedConnections |-> rejectedConnections + 1]
    ELSE IF ~isIPWhitelisted(ip) THEN
        [result |-> FALSE, reason |-> "not_whitelisted",
         totalConnectionAttempts |-> totalConnectionAttempts,
         rejectedConnections |-> rejectedConnections + 1]
    ELSE IF ~validateToken(token) THEN
        [result |-> FALSE, reason |-> "bad_token",
         totalConnectionAttempts |-> totalConnectionAttempts,
         rejectedConnections |-> rejectedConnections + 1]
    ELSE
        [result |-> TRUE, reason |-> "accept",
         totalConnectionAttempts |-> totalConnectionAttempts + 1,
         rejectedConnections |-> rejectedConnections]
verifyClient_OffByOne(ip, token) ==
    LET total == totalConnectionAttempts + 1 IN
    IF connectionCount > MAX_CONNECTIONS THEN
        [result |-> FALSE, reason |-> "capacity",
         totalConnectionAttempts |-> total,
         rejectedConnections |-> rejectedConnections + 1]
    ELSE IF ~isIPWhitelisted(ip) THEN
        [result |-> FALSE, reason |-> "not_whitelisted",
         totalConnectionAttempts |-> total,
         rejectedConnections |-> rejectedConnections + 1]
    ELSE IF ~validateToken(token) THEN
        [result |-> FALSE, reason |-> "bad_token",
         totalConnectionAttempts |-> total,
         rejectedConnections |-> rejectedConnections + 1]
    ELSE
        [result |-> TRUE, reason |-> "accept",
         totalConnectionAttempts |-> total,
         rejectedConnections |-> rejectedConnections]
verifyClient(ip, token) ==
    LET total == totalConnectionAttempts + 1 IN
    IF connectionCount >= MAX_CONNECTIONS THEN
        [result |-> FALSE, reason |-> "capacity",
         totalConnectionAttempts |-> total,
         rejectedConnections |-> rejectedConnections + 1]
    ELSE IF ~isIPWhitelisted(ip) THEN
        [result |-> FALSE, reason |-> "not_whitelisted",
         totalConnectionAttempts |-> total,
         rejectedConnections |-> rejectedConnections + 1]
    ELSE IF ~validateToken(token) THEN
        [result |-> FALSE, reason |-> "bad_token",
         totalConnectionAttempts |-> total,
         rejectedConnections |-> rejectedConnections + 1]
    ELSE
        [result |-> TRUE, reason |-> "accept",
         totalConnectionAttempts |-> total,
         rejectedConnections |-> rejectedConnections]

\* checkRateLimit: the decision and the map it leaves behind
checkRateLimit_ResetsEarly(ip) ==
    LET got == IF ip \in DOMAIN rateLimits THEN rateLimits[ip]
               ELSE [count |-> 0, windowStart |-> now]
        cur == IF now - got.windowStart >= RATE_LIMIT_WINDOW_MS
               THEN [count |-> 0, windowStart |-> now] ELSE got
        new == [cur EXCEPT !.count = @ + 1]
    IN  [allowed |-> new.count <= RATE_LIMIT_MESSAGES,
         rateLimits |-> [a \in DOMAIN rateLimits \cup {ip} |->
                            IF a = ip THEN new ELSE rateLimits[a]]]
checkRateLimit_Capped(ip) ==
    LET got == IF ip \in DOMAIN rateLimits THEN rateLimits[ip]
               ELSE [count |-> 0, windowStart |-> now]
        cur == IF now - got.windowStart > RATE_LIMIT_WINDOW_MS
               THEN [count |-> 0, windowStart |-> now] ELSE got
        new == IF cur.count >= RATE_LIMIT_MESSAGES THEN [cur EXCEPT !.count = 0]
               ELSE [cur EXCEPT !.count = @ + 1]
    IN  [allowed |-> new.count # 0,
         rateLimits |-> [a \in DOMAIN rateLimits \cup {ip} |->
                            IF a = ip THEN new ELSE rateLimits[a]]]
checkRateLimit(ip) ==
    LET got == IF ip \in DOMAIN rateLimits THEN rateLimits[ip]
               ELSE [count |-> 0, windowStart |-> now]
        cur == IF now - got.windowStart > RATE_LIMIT_WINDOW_MS
               THEN [count |-> 0, windowStart |-> now] ELSE got
        new == [cur EXCEPT !.count = @ + 1]
    IN  [allowed |-> new.count <= RATE_LIMIT_MESSAGES,
         rateLimits |-> [a \in DOMAIN rateLimits \cup {ip} |->
                            IF a = ip THEN new ELSE rateLimits[a]]]

\* a function without one of its keys (Map.delete, clearTimeout)
Without(f, k) == [x \in DOMAIN f \ {k} |-> f[x]]

\* cleanupConnection: the registry and the pending timeouts it leaves behind
cleanupConnection_KeepsTimer(clientId) ==
    IF clientId \in DOMAIN connections THEN
        [connections |-> Without(connections, clientId),
         timeouts |-> timeouts,
         connectionCount |-> connectionCount - 1]
    ELSE
        [connections |-> connections, timeouts |-> timeouts,
         connectionCount |-> connectionCount]
cleanupConnection_KeepsCount(clientId) ==
    IF clientId \in DOMAIN connections THEN
        [connections |-> Without(connections, clientId),
         timeouts |-> Without(timeouts, connections[clientId].timeoutId),
         connectionCount |-> connectionCount]
    ELSE
        [connections |-> connections, timeouts |-> timeouts,
         connectionCount |-> connectionCount]
cleanupConnection_NoGuard(clientId) ==
    [connections |-> Without(connections, clientId),
     timeouts |-> Without(timeouts, clientId),
     connectionCount |-> connectionCount - 1]
cleanupConnection(clientId) ==
    IF clientId \in DOMAIN connections THEN
        [connections |-> Without(connections, clientId),
         timeouts |-> Without(timeouts, connections[clientId].timeoutId),
         connectionCount |-> connectionCount - 1]
    ELSE
        [connections |-> connections, timeouts |-> timeouts,
         connectionCount |-> connectionCount]

\* ws.close(code, reason) on one socket: only an open socket starts closing, and
\* a second close() leaves the first one's code
wsClose(sock, code) ==
    IF sock.state = "OPEN" THEN [sock EXCEPT !.state = "CLOSING", !.closeCode = code]
    ELSE sock

\* ------------------------------------------------------------------ state

Init ==
    /\ now = startTime
    /\ phase = "Running"
    /\ config \in [ENABLE_AUTO_SHUTDOWN : BOOLEAN, ENABLE_IP_WHITELIST : BOOLEAN]
    /\ connections = <<>>
    /\ rateLimits = <<>>
    /\ connectionCount = 0
    /\ totalConnectionAttempts = 0
    /\ rejectedConnections = 0
    /\ connectionIdCounter = 0
    /\ clients = <<>>
    /\ timeouts = <<>>
    /\ shutdownTimer = config.ENABLE_AUTO_SHUTDOWN
    /\ adminTimers = {}
    /\ heartbeatInterval = TRUE
    /\ cleanupInterval = TRUE
    /\ handled = 0
    /\ logging = FALSE
    /\ msgLog = [ip \in IPs |-> <<>>]
    /\ ev = NoEvent

\* a setTimeout that is due and has not fired yet
TimerDue ==
    \/ \E t \in DOMAIN timeouts : now >= timeouts[t]
    \/ shutdownTimer /\ now >= startTime + AUTO_SHUTDOWN_MS
    \/ \E due \in adminTimers : now >= due

\* the time passes, once every timeout that is due has fired
Tick ==
    /\ phase # "Stopped"
    /\ ~TimerDue
    /\ now' = now + 1
    /\ ev' = [kind |-> "tick"]
    /\ UNCHANGED <<phase, config, connections, rateLimits, connectionCount,
                   totalConnectionAttempts, rejectedConnections, connectionIdCounter,
                   clients, timeouts, shutdownTimer, adminTimers, heartbeatInterval,
                   cleanupInterval, handled, logging, msgLog>>

\* wss.on('connection'): the registration of an accepted handshake
OnConnection_CountAsId(clientIP) ==
    LET clientId == connectionCount + 1 IN
    /\ connectionIdCounter' = clientId
    /\ connectionCount' = connectionCount + 1
    /\ timeouts' = [t \in DOMAIN timeouts \cup {clientId} |->
                       IF t = clientId THEN now + CONNECTION_TIMEOUT_MS ELSE timeouts[t]]
    /\ connections' = [c \in DOMAIN connections \cup {clientId} |->
                          IF c = clientId
                          THEN [ip |-> clientIP, connectedAt |-> now,
                                timeoutId |-> clientId, messageCount |-> 0]
                          ELSE connections[c]]
    /\ clients' = [c \in DOMAIN clients \cup {clientId} |->
                      IF c = clientId
                      THEN [ip |-> clientIP, state |-> "OPEN", closeCode |-> 0]
                      ELSE clients[c]]
OnConnection(clientIP) ==
    LET clientId == connectionIdCounter + 1 IN
    /\ connectionIdCounter' = clientId
    /\ connectionCount' = connectionCount + 1
    /\ timeouts' = [t \in DOMAIN timeouts \cup {clientId} |->
                       IF t = clientId THEN now + CONNECTION_TIMEOUT_MS ELSE timeouts[t]]
    /\ connections' = [c \in DOMAIN connections \cup {clientId} |->
                          IF c = clientId
                          THEN [ip |-> clientIP, connectedAt |-> now,
                                timeoutId |-> clientId, messageCount |-> 0]
                          ELSE connections[c]]
    /\ clients' = [c \in DOMAIN clients \cup {clientId} |->
                      IF c = clientId
                      THEN [ip |-> clientIP, state |-> "OPEN", closeCode |-> 0]
                      ELSE clients[c]]

\* An upgrade request.  The socket library calls verifyClient and, when it
\* returns true and the socket is still writable, emits 'connection' before
\* it returns: no other callback runs between the two.  completes = FALSE is
\* an accepted handshake whose socket went away: nothing is registered.
HandleUpgrade(clientIP, token, completes) ==
    /\ phase = "Running"
    /\ LET v == verifyClient(clientIP, token) IN
       /\ totalConnectionAttempts' = v.totalConnectionAttempts
       /\ rejectedConnections' = v.rejectedConnections
       /\ IF v.result /\ completes
          THEN /\ OnConnection(clientIP)
               /\ ev' = [kind |-> "upgrade", result |-> v.result, reason |-> v.reason,
                         clientId |-> connectionIdCounter',
                         sent |-> <<[type |-> "welcome",
                                     clientId |-> connectionIdCounter',
                                     activeConnections |-> connectionCount']>>]
          ELSE /\ UNCHANGED <<connectionIdCounter, connectionCount, timeouts,
                              connections, clients>>
               /\ ev' = [kind |-> "upgrade", result |-> v.result, reason |-> v.reason,
                         clientId |-> 0, sent |-> <<>>]
    /\ UNCHANGED <<now, phase, config, rateLimits, shutdownTimer, adminTimers,
                   heartbeatInterval, cleanupInterval, handled, logging, msgLog>>

\* ws.on('message'): what the handler does with one frame
wsOnMessage_OwnBudget(clientId, clientIP, data) ==
    LET rl == checkRateLimit(clientIP)
        connInfo == clientId \in DOMAIN connections
        count == IF connInfo THEN connections[clientId].messageCount + 1 ELSE 0
        allowed == \/ rl.allowed
                   \/ connInfo /\ connections[clientId].messageCount < RATE_LIMIT_MESSAGES
    IN  [allowed |-> allowed,
         rateLimits |-> rl.rateLimits,
         connections |->
             IF allowed /\ ParsesAsJSON(data) /\ connInfo
             THEN [connections EXCEPT ![clientId].messageCount = @ + 1]
             ELSE connections,
         frame |->
             IF ~allowed THEN
                 [type |-> "error", limit |-> RATE_LIMIT_MESSAGES]
             ELSE IF ParsesAsJSON(data) THEN
                 [type |-> "echo", clientId |-> clientId, original |-> "parsed",
                  activeConnections |-> connectionCount, yourMessageCount |-> count]
             ELSE
                 [type |-> "echo", clientId |-> clientId, original |-> "raw",
                  activeConnections |-> connectionCount]]
wsOnMessage_CountsDenied(clientId, clientIP, data) ==
    LET rl == checkRateLimit(clientIP)
        connInfo == clientId \in DOMAIN connections
        count == IF connInfo THEN connections[clientId].messageCount + 1 ELSE 0
    IN  [allowed |-> rl.allowed,
         rateLimits |-> rl.rateLimits,
         connections |->
             IF connInfo THEN [connections EXCEPT ![clientId].messageCount = @ + 1]
             ELSE connections,
         frame |->
             IF ~rl.allowed THEN
                 [type |-> "error", limit |-> RATE_LIMIT_MESSAGES]
             ELSE IF ParsesAsJSON(data) THEN
                 [type |-> "echo", clientId |-> clientId, original |-> "parsed",
                  activeConnections |-> connectionCount, yourMessageCount |-> count]
             ELSE
                 [type |-> "echo", clientId |-> clientId, original |-> "raw",
                  activeConnections |-> connectionCount]]
wsOnMessage(clientId, clientIP, data) ==
    LET rl == checkRateLimit(clientIP)
        connInfo == clientId \in DOMAIN connections
        count == IF connInfo THEN connections[clientId].messageCount + 1 ELSE 0
    IN  [allowed |-> rl.allowed,
         rateLimits |-> rl.rateLimits,
         connections |->
             IF rl.allowed /\ ParsesAsJSON(data) /\ connInfo
             THEN [connections EXCEPT ![clientId].messageCount = @ + 1]
             ELSE connections,
         frame |->
             IF ~rl.allowed THEN
                 [type |-> "error", limit |-> RATE_LIMIT_MESSAGES]
             ELSE IF ParsesAsJSON(data) THEN
                 [type |-> "echo", clientId |-> clientId, original |-> "parsed",
                  activeConnections |-> connectionCount, yourMessageCount |-> count]
             ELSE
                 [type |-> "echo", clientId |-> clientId, original |-> "raw",
                  activeConnections |-> connectionCount]]

\* a frame arrives on a socket that can still receive
OnMessage(clientId, data) ==
    /\ phase # "Stopped"
    /\ clientId \in DOMAIN clients
    /\ clients[clientId].state \in {"OPEN", "CLOSING"}
    /\ LET clientIP == clients[clientId].ip
           m == wsOnMessage(clientId, clientIP, data)
       IN
       /\ rateLimits' = m.rateLimits
       /\ connections' = m.connections
       /\ handled' = handled + 1
       /\ msgLog' =
             IF logging
             THEN [msgLog EXCEPT ![clientIP] =
                      Append(@, [at |-> now, type |-> m.frame.type,
                                 count |-> IF "yourMessageCount" \in DOMAIN m.frame
                                           THEN m.frame.yourMessageCount ELSE 0])]
             ELSE msgLog
       /\ ev' = [kind |-> "message", clientId |-> clientId,
                 allowed |-> m.allowed, sent |-> <<m.frame>>]
    /\ UNCHANGED <<now, phase, config, connectionCount, totalConnectionAttempts,
                   rejectedConnections, connectionIdCounter, clients, timeouts,
                   shutdownTimer, adminTimers, heartbeatInterval, cleanupInterval,
                   logging>>

\* ws.on('close'): the socket is gone, by the peer's close or at the end of a
\* closing handshake the server began
OnClose_NoCleanup(clientId) ==
    /\ phase # "Stopped"
    /\ clientId \in DOMAIN clients
    /\ clients' = Without(clients, clientId)
    /\ ev' = [kind |-> "close", clientId |-> clientId,
              known |-> clientId \in DOMAIN connections]
    /\ UNCHANGED <<now, phase, config, connections, rateLimits, connectionCount,
                   totalConnectionAttempts, rejectedConnections, connectionIdCounter,
                   timeouts, shutdownTimer, adminTimers, heartbeatInterval,
                   cleanupInterval, handled, logging, msgLog>>
OnClose(clientId) ==
    /\ phase # "Stopped"
    /\ clientId \in DOMAIN clients
    /\ LET c == cleanupConnection(clientId) IN
       /\ connections' = c.connections
       /\ timeouts' = c.timeouts
       /\ connectionCount' = c.connectionCount
    /\ clients' = Without(clients, clientId)
    /\ ev' = [kind |-> "close", clientId |-> clientId,
              known |-> clientId \in DOMAIN connections]
    /\ UNCHANGED <<now, phase, config, rateLimits, totalConnectionAttempts,
                   rejectedConnections, connectionIdCounter, shutdownTimer,
                   adminTimers, heartbeatInterval, cleanupInterval, handled, logging, msgLog>>

\* ws.on('error'): the socket failed; its 'close' follows later
OnError(clientId) ==
    /\ phase # "Stopped"
    /\ clientId \in DOMAIN clients
    /\ clients[clientId].state \in {"OPEN", "CLOSING"}
    /\ LET c == cleanupConnection(clientId) IN
       /\ connections' = c.connections
       /\ timeouts' = c.timeouts
       /\ connectionCount' = c.connectionCount
    /\ clients' = [clients EXCEPT ![clientId].state = "ERRORED"]
    /\ ev' = [kind |-> "error", clientId |-> clientId,
              known |-> clientId \in DOMAIN connections]
    /\ UNCHANGED <<now, phase, config, rateLimits, totalConnectionAttempts,
                   rejectedConnections, connectionIdCounter, shutdownTimer,
                   adminTimers, heartbeatInterval, cleanupInterval, handled, logging, msgLog>>

\* the connection timeout fires: ws.close(1000, 'Connection timeout')
ConnectionTimeout_Rearms(timeoutId) ==
    /\ phase # "Stopped"
    /\ timeoutId \in DOMAIN timeouts
    /\ now >= timeouts[timeoutId]
    /\ timeouts' = [timeouts EXCEPT ![timeoutId] = now + CONNECTION_TIMEOUT_MS]
    /\ clients' = [c \in DOMAIN clients |->
                      IF c = timeoutId THEN wsClose(clients[c], 1000) ELSE clients[c]]
    /\ ev' = [kind |-> "timeout", clientId |-> timeoutId,
              known |-> timeoutId \in DOMAIN connections]
    /\ UNCHANGED <<now, phase, config, connections, rateLimits, connectionCount,
                   totalConnectionAttempts, rejectedConnections, connectionIdCounter,
                   shutdownTimer, adminTimers, heartbeatInterval, cleanupInterval,
                   handled, logging, msgLog>>
ConnectionTimeout(timeoutId) ==
    /\ phase # "Stopped"
    /\ timeoutId \in DOMAIN timeouts
    /\ now >= timeouts[timeoutId]
    /\ timeouts' = Without(timeouts, timeoutId)
    /\ clients' = [c \in DOMAIN clients |->
                      IF c = timeoutId THEN wsClose(clients[c], 1000) ELSE clients[c]]
    /\ ev' = [kind |-> "timeout", clientId |-> timeoutId,
              known |-> timeoutId \in DOMAIN connections]
    /\ UNCHANGED <<now, phase, config, connections, rateLimits, connectionCount,
                   totalConnectionAttempts, rejectedConnections, connectionIdCounter,
                   shutdownTimer, adminTimers, heartbeatInterval, cleanupInterval,
                   handled, logging, msgLog>>

\* the heartbeat interval fires: one frame to every socket that is OPEN
Heartbeat_ToAll ==
    /\ phase # "Stopped"
    /\ heartbeatInterval
    /\ ev' = [kind |-> "heartbeat",
              to |-> DOMAIN clients,
              frame |-> [type |-> "heartbeat", activeConnections |-> connectionCount,
                         uptime |-> Uptime]]
    /\ UNCHANGED <<now, phase, config, connections, rateLimits, connectionCount,
                   totalConnectionAttempts, rejectedConnections, connectionIdCounter,
                   clients, timeouts, shutdownTimer, adminTimers, heartbeatInterval,
                   cleanupInterval, handled, logging, msgLog>>
Heartbeat ==
    /\ phase # "Stopped"
    /\ heartbeatInterval
    /\ ev' = [kind |-> "heartbeat",
              to |-> {c \in DOMAIN clients : clients[c].state = "OPEN"},
              frame |-> [type |-> "heartbeat", activeConnections |-> connectionCount,
                         uptime |-> Uptime]]
    /\ UNCHANGED <<now, phase, config, connections, rateLimits, connectionCount,
                   totalConnectionAttempts, rejectedConnections, connectionIdCounter,
                   clients, timeouts, shutdownTimer, adminTimers, heartbeatInterval,
                   cleanupInterval, handled, logging, msgLog>>

\* the cleanup interval fires: windows idle for more than two windows go
RateLimitCleanup_All ==
    /\ phase # "Stopped"
    /\ cleanupInterval
    /\ rateLimits' = <<>>
    /\ ev' = [kind |-> "cleanup", removed |-> DOMAIN rateLimits \ DOMAIN rateLimits']
    /\ UNCHANGED <<now, phase, config, connections, connectionCount,
                   totalConnectionAttempts, rejectedConnections, connectionIdCounter,
                   clients, timeouts, shutdownTimer, adminTimers, heartbeatInterval,
                   cleanupInterval, handled, logging, msgLog>>
RateLimitCleanup_OneWindow ==
    /\ phase # "Stopped"
    /\ cleanupInterval
    /\ rateLimits' = [ip \in {a \in DOMAIN rateLimits :
                                ~(now - rateLimits[a].windowStart > RATE_LIMIT_WINDOW_MS)}
                         |-> rateLimits[ip]]
    /\ ev' = [kind |-> "cleanup", removed |-> DOMAIN rateLimits \ DOMAIN rateLimits']
    /\ UNCHANGED <<now, phase, config, connections, connectionCount,
                   totalConnectionAttempts, rejectedConnections, connectionIdCounter,
                   clients, timeouts, shutdownTimer, adminTimers, heartbeatInterval,
                   cleanupInterval, handled, logging, msgLog>>
RateLimitCleanup ==
    /\ phase # "Stopped"
    /\ cleanupInterval
    /\ rateLimits' = [ip \in {a \in DOMAIN rateLimits :
                                ~(now - rateLimits[a].windowStart > RATE_LIMIT_WINDOW_MS * 2)}
                         |-> rateLimits[ip]]
    /\ ev' = [kind |-> "cleanup", removed |-> DOMAIN rateLimits \ DOMAIN rateLimits']
    /\ UNCHANGED <<now, phase, config, connections, connectionCount,
                   totalConnectionAttempts, rejectedConnections, connectionIdCounter,
                   clients, timeouts, shutdownTimer, adminTimers, heartbeatInterval,
                   cleanupInterval, handled, logging, msgLog>>

\* GET /admin/shutdown
AdminShutdown(query, header) ==
    /\ phase = "Running"
    /\ LET token == AdminToken(query, header) IN
       IF token # AUTH_TOKEN
       THEN /\ ev' = [kind |-> "admin", status |-> 401]
            /\ UNCHANGED adminTimers
       ELSE /\ ev' = [kind |-> "admin", status |-> 200]
            /\ adminTimers' = adminTimers \cup {now + ADMIN_SHUTDOWN_DELAY_MS}
    /\ UNCHANGED <<now, phase, config, connections, rateLimits, connectionCount,
                   totalConnectionAttempts, rejectedConnections, connectionIdCounter,
                   clients, timeouts, shutdownTimer, heartbeatInterval,
                   cleanupInterval, handled, logging, msgLog>>

\* the manual-shutdown timeout fires: process.exit(0)
AdminShutdownFire(due) ==
    /\ phase # "Stopped"
    /\ due \in adminTimers
    /\ now >= due
    /\ adminTimers' = adminTimers \ {due}
    /\ phase' = "Stopped"
    /\ ev' = [kind |-> "exit", by |-> "admin"]
    /\ UNCHANGED <<now, config, connections, rateLimits, connectionCount,
                   totalConnectionAttempts, rejectedConnections, connectionIdCounter,
                   clients, timeouts, shutdownTimer, heartbeatInterval,
                   cleanupInterval, handled, logging, msgLog>>

\* the auto-shutdown timeout fires: process.exit(0)
AutoShutdown ==
    /\ phase # "Stopped"
    /\ shutdownTimer
    /\ now >= startTime + AUTO_SHUTDOWN_MS
    /\ shutdownTimer' = FALSE
    /\ phase' = "Stopped"
    /\ ev' = [kind |-> "exit", by |-> "auto"]
    /\ UNCHANGED <<now, config, connections, rateLimits, connectionCount,
                   totalConnectionAttempts, rejectedConnections, connectionIdCounter,
                   clients, timeouts, adminTimers, heartbeatInterval,
                   cleanupInterval, handled, logging, msgLog>>

\* process.on('SIGTERM')
Sigterm_KeepsSweep ==
    /\ phase \in {"Running", "Draining"}
    /\ heartbeatInterval' = FALSE
    /\ clients' = [c \in DOMAIN clients |-> wsClose(clients[c], 1001)]
    /\ phase' = "Draining"
    /\ ev' = [kind |-> "sigterm",
              closed |-> {c \in DOMAIN clients : clients[c].state = "OPEN"}]
    /\ UNCHANGED <<now, config, connections, rateLimits, connectionCount,
                   totalConnectionAttempts, rejectedConnections, connectionIdCounter,
                   timeouts, shutdownTimer, adminTimers, cleanupInterval, handled,
                   logging, msgLog>>
Sigterm_KeepsSockets ==
    /\ phase \in {"Running", "Draining"}
    /\ heartbeatInterval' = FALSE
    /\ cleanupInterval' = FALSE
    /\ phase' = "Draining"
    /\ ev' = [kind |-> "sigterm",
              closed |-> {c \in DOMAIN clients : clients[c].state = "OPEN"}]
    /\ UNCHANGED <<now, config, connections, rateLimits, connectionCount,
                   totalConnectionAttempts, rejectedConnections, connectionIdCounter,
                   clients, timeouts, shutdownTimer, adminTimers, handled, logging,
                   msgLog>>
Sigterm ==
    /\ phase \in {"Running", "Draining"}
    /\ heartbeatInterval' = FALSE
    /\ cleanupInterval' = FALSE
    /\ clients' = [c \in DOMAIN clients |-> wsClose(clients[c], 1001)]
    /\ phase' = "Draining"
    /\ ev' = [kind |-> "sigterm",
              closed |-> {c \in DOMAIN clients : clients[c].state = "OPEN"}]
    /\ UNCHANGED <<now, config, connections, rateLimits, connectionCount,
                   totalConnectionAttempts, rejectedConnections, connectionIdCounter,
                   timeouts, shutdownTimer, adminTimers, handled, logging, msgLog>>

\* After server.close() the listener is closed once the last socket is gone;
\* with no timer left pending the process ends.
ServerClosed ==
    /\ phase = "Draining"
    /\ DOMAIN clients = {}
    /\ DOMAIN timeouts = {}
    /\ ~shutdownTimer
    /\ adminTimers = {}
    /\ phase' = "Stopped"
    /\ ev' = [kind |-> "exit", by |-> "sigterm"]
    /\ UNCHANGED <<now, config, connections, rateLimits, connectionCount,
                   totalConnectionAttempts, rejectedConnections, connectionIdCounter,
                   clients, timeouts, shutdownTimer, adminTimers, heartbeatInterval,
                   cleanupInterval, handled, logging, msgLog>>

\* ------------------------------------------------------------ the server

Upgrades == \E ip \in IPs, token \in Tokens, completes \in BOOLEAN :
               HandleUpgrade(ip, token, completes)
Messages == \E c \in ClientIds, data \in Payloads : OnMessage(c, data)
Closes == \E c \in ClientIds : OnClose(c)
Errors == \E c \in ClientIds : OnError(c)
Timeouts == \E t \in ClientIds : ConnectionTimeout(t)
Admin == \E query \in Tokens, header \in AuthHeaders : AdminShutdown(query, header)
AdminFires == \E due \in adminTimers : AdminShutdownFire(due)

Next ==
    \/ now < MaxTime /\ Tick
    \/ totalConnectionAttempts < MaxAttempts /\ Upgrades
    \/ handled < MaxMessages /\ Messages
    \/ Closes
    \/ Errors
    \/ Timeouts
    \/ Heartbeat
    \/ RateLimitCleanup
    \/ Admin
    \/ AdminFires
    \/ AutoShutdown
    \/ Sigterm
    \/ ServerClosed

Spec == Init /\ [][Next]_vars

\* ------------------- the admission and registry callbacks, auto-shutdown off

InitAdmission ==
    /\ Init
    /\ ~config.ENABLE_AUTO_SHUTDOWN

NextAdmission ==
    \/ now < AdmTime /\ Tick
    \/ totalConnectionAttempts < AdmAttempts /\ Upgrades
    \/ Closes
    \/ Errors
    \/ Timeouts
    \/ Sigterm

SpecAdmission == InitAdmission /\ [][NextAdmission]_vars

\* ------------------------------------- the shutdown paths, without messages

NextLifecycle ==
    \/ now < LifeTime /\ Tick
    \/ totalConnectionAttempts < LifeAttempts /\ Upgrades
    \/ Closes
    \/ Timeouts
    \/ Heartbeat
    \/ Admin
    \/ AdminFires
    \/ AutoShutdown
    \/ Sigterm
    \/ ServerClosed

SpecLifecycle == Init /\ [][NextLifecycle]_vars

\* ---------- the rate limiter's callbacks, auto-shutdown and whitelist off,
\* ---------- with the log of the frames kept

InitRate ==
    /\ now = startTime
    /\ phase = "Running"
    /\ config = [ENABLE_AUTO_SHUTDOWN |-> FALSE, ENABLE_IP_WHITELIST |-> FALSE]
    /\ connections = <<>>
    /\ rateLimits = <<>>
    /\ connectionCount = 0
    /\ totalConnectionAttempts = 0
    /\ rejectedConnections = 0
    /\ connectionIdCounter = 0
    /\ clients = <<>>
    /\ timeouts = <<>>
    /\ shutdownTimer = config.ENABLE_AUTO_SHUTDOWN
    /\ adminTimers = {}
    /\ heartbeatInterval = TRUE
    /\ cleanupInterval = TRUE
    /\ handled = 0
    /\ logging = TRUE
    /\ msgLog = [ip \in IPs |-> <<>>]
    /\ ev = NoEvent

NextRate ==
    \/ now < RateTime /\ Tick
    \/ totalConnectionAttempts < RateAttempts /\ Upgrades
    \/ handled < RateMessages /\ Messages
    \/ RateLimitCleanup
    \/ Closes

SpecRate == InitRate /\ [][NextRate]_vars

\* ------ the connection timeout among messages, closes, errors and the signal,
\* ------ auto-shutdown and whitelist off.  A socket that is there has its
\* ------ 'close' event delivered in the end: by the peer's close, at the end
\* ------ of the closing handshake, or when the library gives up on it.

InitExpiry ==
    /\ Init
    /\ config = [ENABLE_AUTO_SHUTDOWN |-> FALSE, ENABLE_IP_WHITELIST |-> FALSE]

NextExpiry ==
    \/ now < ExpTime /\ Tick
    \/ totalConnectionAttempts < ExpAttempts /\ Upgrades
    \/ handled < ExpMessages /\ Messages
    \/ Closes
    \/ Errors
    \/ Timeouts
    \/ Sigterm

SpecExpiry ==
    /\ InitExpiry
    /\ [][NextExpiry]_vars
    /\ \A c \in ClientIds : WF_vars(OnClose(c))

\* ------ the registry under the same callbacks, with more connections

NextRegistry ==
    \/ now < RegTime /\ Tick
    \/ totalConnectionAttempts < RegAttempts /\ Upgrades
    \/ handled < RegMessages /\ Messages
    \/ Closes
    \/ Errors
    \/ Timeouts
    \/ Sigterm

SpecRegistry == InitExpiry /\ [][NextRegistry]_vars

\* ------ the recurring timers and the termination signal

NextDrain ==
    \/ now < DrainTime /\ Tick
    \/ totalConnectionAttempts < DrainAttempts /\ Upgrades
    \/ handled < DrainMessages /\ Messages
    \/ Closes
    \/ Timeouts
    \/ Heartbeat
    \/ RateLimitCleanup
    \/ Sigterm
    \/ ServerClosed

SpecDrain == InitExpiry /\ [][NextDrain]_vars

\* ------ the heartbeat among sockets that are open, closing and failed

NextBeat ==
    \/ now < BeatTime /\ Tick
    \/ totalConnectionAttempts < BeatAttempts /\ Upgrades
    \/ handled < BeatMessages /\ Messages
    \/ Closes
    \/ Errors
    \/ Timeouts
    \/ Heartbeat

SpecBeat == InitExpiry /\ [][NextBeat]_vars

\* ------ the frames of connections that share an address, with the log kept

NextShared ==
    \/ now < ShareTime /\ Tick
    \/ totalConnectionAttempts < ShareAttempts /\ Upgrades
    \/ handled < ShareMessages /\ Messages
    \/ Closes

SpecShared == InitRate /\ [][NextShared]_vars

\* ------ the frames of an address before and after a sweep, with the log kept

NextTransparent ==
    \/ now < TrTime /\ Tick
    \/ totalConnectionAttempts < TrAttempts /\ Upgrades
    \/ handled < TrMessages /\ Messages
    \/ Timeouts
    \/ RateLimitCleanup

SpecTransparent == InitRate /\ [][NextTransparent]_vars

\* ------ the sweep of the rate windows among the frames of two connections

NextSweep ==
    \/ now < SweepTime /\ Tick
    \/ totalConnectionAttempts < SweepAttempts /\ Upgrades
    \/ handled < SweepMessages /\ Messages
    \/ Timeouts
    \/ RateLimitCleanup

SpecSweep == InitExpiry /\ [][NextSweep]_vars

\* ------ retirement with every way the process ends, whitelist off; a socket
\* ------ that is there has its 'close' event delivered while the process runs

InitRetire ==
    /\ Init
    /\ ~config.ENABLE_IP_WHITELIST

NextRetire ==
    \/ now < RetTime /\ Tick
    \/ totalConnectionAttempts < RetAttempts /\ Upgrades
    \/ Closes
    \/ Errors
    \/ Timeouts
    \/ Admin
    \/ AdminFires
    \/ AutoShutdown
    \/ Sigterm
    \/ ServerClosed

SpecRetire ==
    /\ InitRetire
    /\ [][NextRetire]_vars
    /\ \A c \in ClientIds : WF_vars(OnClose(c))

\* ------------------------------------------------------------- properties

\* a step of verifyClient, for some candidate
IsUpgrade == \E ip \in IPs, token \in Tokens, completes \in BOOLEAN :
                HandleUpgrade(ip, token, completes)

\* C1: every admission evaluation increases totalConnectionAttempts by exactly
\* 1, and rejectedConnections by exactly 1 when the result is Reject and by 0
\* when it is Accept.
C1_AttemptCounting ==
    [][IsUpgrade =>
          /\ ev'.kind = "upgrade"
          /\ totalConnectionAttempts' = totalConnectionAttempts + 1
          /\ rejectedConnections' =
                rejectedConnections + (IF ev'.result THEN 0 ELSE 1)]_vars

\* an accepted and a rejected evaluation have both been counted
C1_Witness ==
    /\ ev.kind = "upgrade"
    /\ ~ev.result
    /\ connectionIdCounter >= 1
    /\ totalConnectionAttempts = 3
    /\ rejectedConnections = 1

\* the outcome the order capacity, whitelist, token prescribes
ExpectedReason(ip, token) ==
    IF ~(connectionCount < MAX_CONNECTIONS) THEN "capacity"
    ELSE IF config.ENABLE_IP_WHITELIST /\ ip \notin IP_WHITELIST THEN "not_whitelisted"
    ELSE IF token # AUTH_TOKEN THEN "bad_token"
    ELSE "accept"

\* C2: the result is Accept exactly when connectionCount < MAX_CONNECTIONS, the
\* whitelist is off or holds the address, and the token is AUTH_TOKEN exactly;
\* otherwise it is Reject with the reason of the first failing check in the
\* order capacity, not_whitelisted, bad_token.
C2_AdmissionDecision ==
    [][\A ip \in IPs, token \in Tokens, completes \in BOOLEAN :
          HandleUpgrade(ip, token, completes) =>
              /\ ev'.reason = ExpectedReason(ip, token)
              /\ ev'.result = (ExpectedReason(ip, token) = "accept")]_vars

\* a token that differs in case only was refused while a slot was free
C2_Witness ==
    /\ ev.kind = "upgrade"
    /\ ev.reason = "bad_token"
    /\ connectionCount = 1

\* the connection records the registry holds
ActiveRecords == Cardinality(DOMAIN connections)

\* C3: while MAX_CONNECTIONS connections are registered every attempt is
\* Reject(capacity), whatever its token and address; once one of them is
\* retired an attempt with the right token from an admitted address is Accept.
C3_Capacity ==
    [][\A ip \in IPs, token \in Tokens, completes \in BOOLEAN :
          HandleUpgrade(ip, token, completes) =>
              /\ ActiveRecords = MAX_CONNECTIONS =>
                    ~ev'.result /\ ev'.reason = "capacity"
              /\ (/\ ActiveRecords < MAX_CONNECTIONS
                  /\ token = AUTH_TOKEN
                  /\ (config.ENABLE_IP_WHITELIST => ip \in IP_WHITELIST)) =>
                    ev'.result]_vars

\* MAX_CONNECTIONS were registered, one was retired, and the next attempt took
\* its slot
C3_Witness ==
    /\ ev.kind = "upgrade"
    /\ ev.result
    /\ ev.clientId = MAX_CONNECTIONS + 1
    /\ connectionCount = MAX_CONNECTIONS

\* C4, as stated: with the whitelist on, a candidate from an address outside it
\* is Reject(not_whitelisted) whatever its token.
C4_Original ==
    [][\A ip \in IPs, token \in Tokens, completes \in BOOLEAN :
          (HandleUpgrade(ip, token, completes)
             /\ config.ENABLE_IP_WHITELIST /\ ip \notin IP_WHITELIST) =>
              ev'.reason = "not_whitelisted"]_vars

\* C4, amended: with the whitelist on, a candidate from an address outside it
\* is always rejected, whatever its token: Reject(not_whitelisted) while
\* connectionCount < MAX_CONNECTIONS, Reject(capacity) otherwise.
C4_Whitelist ==
    [][\A ip \in IPs, token \in Tokens, completes \in BOOLEAN :
          (HandleUpgrade(ip, token, completes)
             /\ config.ENABLE_IP_WHITELIST /\ ip \notin IP_WHITELIST) =>
              /\ ~ev'.result
              /\ ev'.clientId = 0
              /\ connections' = connections
              /\ ev'.reason = IF connectionCount < MAX_CONNECTIONS
                              THEN "not_whitelisted" ELSE "capacity"]_vars

\* an address outside the whitelist was refused for that reason
C4_Witness ==
    /\ config.ENABLE_IP_WHITELIST
    /\ ev.kind = "upgrade"
    /\ ev.reason = "not_whitelisted"
    /\ connectionCount = 1

\* the fixed window the i-th frame of a log falls in, and its rank in it: a
\* frame later than RATE_LIMIT_WINDOW_MS after the start of the window of the
\* frame before it starts a new window
RECURSIVE RefWindow(_, _)
RefWindow(log, i) ==
    IF i = 1 THEN [start |-> log[1].at, rank |-> 1]
    ELSE LET prev == RefWindow(log, i - 1) IN
         IF log[i].at - prev.start > RATE_LIMIT_WINDOW_MS
         THEN [start |-> log[i].at, rank |-> 1]
         ELSE [start |-> prev.start, rank |-> prev.rank + 1]

\* C5: for one address, the first RATE_LIMIT_MESSAGES frames of a window are
\* admitted and every later frame of that window is denied; the first frame
\* after the window has expired starts a new window and is admitted.  A denied
\* frame does not advance the connection's messageCount, and an admitted frame
\* that parses is echoed with the count advanced by one.
C5_FixedWindow ==
    /\ [](\A ip \in IPs : \A i \in 1..Len(msgLog[ip]) :
            (msgLog[ip][i].type = "echo") <=>
                (RefWindow(msgLog[ip], i).rank <= RATE_LIMIT_MESSAGES))
    /\ [][\A c \in ClientIds, data \in Payloads :
            OnMessage(c, data) =>
                /\ ev'.allowed = (ev'.sent[1].type = "echo")
                /\ ~ev'.allowed => connections' = connections
                /\ (ev'.allowed /\ ParsesAsJSON(data)) =>
                      /\ connections'[c].messageCount = connections[c].messageCount + 1
                      /\ ev'.sent[1].yourMessageCount = connections'[c].messageCount]_vars

\* the frames of one connection at t = 0, 1, 1, 2, with a window of 1 and a
\* limit of 2: echo(1), echo(2), error, echo(3)
C5_Witness ==
    /\ msgLog["A"] = << [at |-> 0, type |-> "echo", count |-> 1],
                        [at |-> 1, type |-> "echo", count |-> 2],
                        [at |-> 1, type |-> "error", count |-> 0],
                        [at |-> 2, type |-> "echo", count |-> 3] >>
    /\ msgLog["C"] = <<>>

\* C6: a rate-limited frame is answered with exactly one error frame and no
\* echo; the connection's record, its pending timeout, its socket and
\* connectionCount are left as they were.
C6_RateLimitedIsSoft ==
    [][(ev'.kind = "message" /\ ~ev'.allowed) =>
          /\ Len(ev'.sent) = 1
          /\ ev'.sent[1].type = "error"
          /\ ev'.sent[1].limit = RATE_LIMIT_MESSAGES
          /\ connections' = connections
          /\ timeouts' = timeouts
          /\ clients' = clients
          /\ connectionCount' = connectionCount]_vars

\* a frame was denied after the connection had frames echoed, and its record
\* and timeout are still there
C6_Witness ==
    /\ ev.kind = "message"
    /\ ~ev.allowed
    /\ ev.clientId \in DOMAIN connections
    /\ connections[ev.clientId].messageCount = RATE_LIMIT_MESSAGES
    /\ ev.clientId \in DOMAIN timeouts
    /\ clients[ev.clientId].state = "OPEN"

\* C7: retiring an id that is already retired changes nothing; connectionCount
\* is decremented only by the first retirement of an id and is never negative.
C7_RetireIdempotent ==
    /\ [](connectionCount >= 0)
    /\ [][(ev'.kind \in {"close", "error"}) =>
            IF ev'.known
            THEN /\ connectionCount' = connectionCount - 1
                 /\ ev'.clientId \notin DOMAIN connections'
                 /\ ev'.clientId \notin DOMAIN timeouts'
            ELSE /\ connectionCount' = connectionCount
                 /\ connections' = connections
                 /\ timeouts' = timeouts]_vars

\* the close handler ran for a connection its error handler had retired
C7_Witness ==
    /\ ev.kind = "close"
    /\ ~ev.known
    /\ connectionCount = 1

\* everything but the history of the last callback
state == <<now, phase, config, connections, rateLimits, connectionCount,
           totalConnectionAttempts, rejectedConnections, connectionIdCounter,
           clients, timeouts, shutdownTimer, adminTimers, heartbeatInterval,
           cleanupInterval, handled, logging, msgLog>>

\* the request carries the right token: in the query, or with no token in
\* the query in the Authorization header
PresentsAuthToken(query, header) ==
    \/ query = AUTH_TOKEN
    \/ query = Undefined /\ header \in {<<"Bearer", "test123">>, <<"test123">>}

\* C8: an admin shutdown request whose token differs from AUTH_TOKEN is
\* answered 401 and changes nothing: the server stays Running, no shutdown
\* timeout is armed, no socket is closed and no counter moves.
C8_UnauthorizedShutdown ==
    [][\A query \in Tokens, header \in AuthHeaders :
          (AdminShutdown(query, header) /\ ~PresentsAuthToken(query, header)) =>
              /\ ev'.status = 401
              /\ state' = state
              /\ phase' = "Running"]_vars

\* a request with a wrong token was refused while a connection was open
C8_Witness ==
    /\ ev.kind = "admin"
    /\ ev.status = 401
    /\ phase = "Running"
    /\ adminTimers = {}
    /\ \E c \in DOMAIN clients : clients[c].state = "OPEN"

\* C9: with ENABLE_AUTO_SHUTDOWN off, autoShutdownIn of /health is null in
\* every state, no auto-shutdown timeout is pending and none ever fires; with it
\* on, the timeout is armed from the start, is never armed again once it has
\* fired, and fires only when AUTO_SHUTDOWN_MS have passed since startTime,
\* ending the process.
C9_AutoShutdown ==
    /\ [](~config.ENABLE_AUTO_SHUTDOWN =>
            /\ AutoShutdownIn = Null
            /\ ~shutdownTimer
            /\ ~(ev.kind = "exit" /\ ev.by = "auto"))
    /\ [](config.ENABLE_AUTO_SHUTDOWN =>
            /\ AutoShutdownIn = Number(Max(0, AUTO_SHUTDOWN_MS - (now - startTime)))
            /\ (now < startTime + AUTO_SHUTDOWN_MS /\ phase # "Stopped") => shutdownTimer)
    /\ [][~shutdownTimer => ~shutdownTimer']_vars
    /\ [][(shutdownTimer /\ ~shutdownTimer') =>
            /\ ev'.kind = "exit" /\ ev'.by = "auto"
            /\ now >= startTime + AUTO_SHUTDOWN_MS
            /\ phase # "Stopped" /\ phase' = "Stopped"]_vars

\* with auto-shutdown off the server is still running after AUTO_SHUTDOWN_MS
C9_Witness ==
    /\ ~config.ENABLE_AUTO_SHUTDOWN
    /\ now > startTime + AUTO_SHUTDOWN_MS
    /\ phase = "Running"
    /\ connectionCount = 1

C12_CountsEveryFrame ==
    [][\A c \in ClientIds, data \in Payloads :
          (OnMessage(c, data) /\ ev'.allowed /\ c \in DOMAIN connections) =>
              /\ connections'[c].messageCount = connections[c].messageCount + 1
              /\ ~ParsesAsJSON(data) =>
                    /\ ev'.sent[1].type = "echo"
                    /\ ev'.sent[1].original = "raw"
                    /\ clients' = clients
                    /\ DOMAIN connections' = DOMAIN connections
                    /\ connectionCount' = connectionCount]_vars

\* C13: between callbacks connectionCount is the number of records
\* securityState.connections holds, after any interleaving of registrations,
\* frames, close and error events, connection timeouts and the signal.
C13_CountIsRecords ==
    connectionCount = Cardinality(DOMAIN connections)

\* while draining, one of two connections is still registered; the other was
\* retired by its error handler and its socket has not closed yet
C13_Witness ==
    /\ phase = "Draining"
    /\ connectionIdCounter = 2
    /\ handled >= 1
    /\ connectionCount = 1
    /\ \E c \in DOMAIN clients :
          clients[c].state = "ERRORED" /\ c \notin DOMAIN connections
    /\ \E c \in DOMAIN connections : c \notin DOMAIN timeouts

\* C14: connectionIdCounter starts at 0 and moves only in a registration, by
\* exactly 1, and the new connection's id is its new value: the k-th
\* registration gets id k.  Every id a record, a socket or a pending timeout
\* carries is at most connectionIdCounter, so a new id is larger than every id
\* handed out before, live or retired.  An upgrade that is rejected, or that
\* registers nothing, leaves connectionIdCounter as it is.
C14_IdsIncrease ==
    /\ [](/\ DOMAIN connections \subseteq 1..connectionIdCounter
          /\ DOMAIN clients \subseteq 1..connectionIdCounter
          /\ DOMAIN timeouts \subseteq 1..connectionIdCounter)
    /\ [][connectionIdCounter' # connectionIdCounter =>
            /\ connectionIdCounter' = connectionIdCounter + 1
            /\ ev'.kind = "upgrade" /\ ev'.result
            /\ ev'.clientId = connectionIdCounter'
            /\ DOMAIN connections' = DOMAIN connections \cup {ev'.clientId}]_vars
    /\ [][\A ip \in IPs, token \in Tokens, completes \in BOOLEAN :
            HandleUpgrade(ip, token, completes) =>
                IF ev'.result /\ completes
                THEN /\ ev'.clientId = connectionIdCounter + 1
                     /\ ev'.clientId \notin
                           DOMAIN connections \cup DOMAIN clients \cup DOMAIN timeouts
                     /\ ev'.clientId \in DOMAIN connections'
                ELSE /\ connectionIdCounter' = connectionIdCounter
                     /\ connections' = connections]_vars
    /\ [][ev'.kind # "upgrade" => connectionIdCounter' = connectionIdCounter]_vars

\* connection 1 was admitted, an attempt was rejected, connection 1 was retired
\* and its socket is gone, and the next accepted connection got id 2
C14_Witness ==
    /\ ev.kind = "upgrade"
    /\ ev.result
    /\ ev.clientId = 2
    /\ totalConnectionAttempts = 3
    /\ rejectedConnections = 1
    /\ DOMAIN connections = {2}
    /\ DOMAIN clients = {2}

\* C15: in every state totalConnectionAttempts >= connectionCount +
\* rejectedConnections and rejectedConnections <= totalConnectionAttempts, and
\* no step decreases totalConnectionAttempts or rejectedConnections.
C15_CounterInequality ==
    /\ [](/\ totalConnectionAttempts >= connectionCount + rejectedConnections
          /\ rejectedConnections <= totalConnectionAttempts
          /\ rejectedConnections >= 0)
    /\ [][/\ totalConnectionAttempts' >= totalConnectionAttempts
          /\ rejectedConnections' >= rejectedConnections]_vars

\* three attempts: one rejected, one registered and still there, one that is
\* counted in neither (retired since, or accepted and never registered)
C15_Witness ==
    /\ totalConnectionAttempts = 3
    /\ rejectedConnections = 1
    /\ connectionCount = 1
    /\ ev.kind \in {"close", "error", "upgrade"}

\* C16, as stated: when a frame's count is compared with RATE_LIMIT_MESSAGES
\* the time lies in [windowStart, windowStart + RATE_LIMIT_WINDOW_MS), and a
\* frame that arrives at or after windowStart + RATE_LIMIT_WINDOW_MS is
\* counted as the first of a window that starts now.
C16_Original ==
    [][\A c \in ClientIds, data \in Payloads :
          OnMessage(c, data) =>
              LET ip == clients[c].ip
                  w == rateLimits'[ip] IN
              /\ w.windowStart <= now
              /\ now < w.windowStart + RATE_LIMIT_WINDOW_MS
              /\ (/\ ip \in DOMAIN rateLimits
                  /\ now >= rateLimits[ip].windowStart + RATE_LIMIT_WINDOW_MS) =>
                    w = [count |-> 1, windowStart |-> now]]_vars

\* C16, amended: when a frame's count is compared with RATE_LIMIT_MESSAGES the
\* time lies in the closed window [windowStart, windowStart +
\* RATE_LIMIT_WINDOW_MS].  A frame that arrives later than windowStart +
\* RATE_LIMIT_WINDOW_MS, or from an address without a window, is counted as the
\* first of a window that starts now; a frame that arrives up to and at
\* windowStart + RATE_LIMIT_WINDOW_MS is counted in the old window.  The frame
\* is allowed exactly when the count, with it, is at most RATE_LIMIT_MESSAGES.
C16_ClosedWindow ==
    [][\A c \in ClientIds, data \in Payloads :
          OnMessage(c, data) =>
              LET ip == clients[c].ip
                  w == rateLimits'[ip] IN
              /\ w.windowStart <= now
              /\ now <= w.windowStart + RATE_LIMIT_WINDOW_MS
              /\ ev'.allowed = (w.count <= RATE_LIMIT_MESSAGES)
              /\ w = IF /\ ip \in DOMAIN rateLimits
                        /\ now <= rateLimits[ip].windowStart + RATE_LIMIT_WINDOW_MS
                     THEN [count |-> rateLimits[ip].count + 1,
                           windowStart |-> rateLimits[ip].windowStart]
                     ELSE [count |-> 1, windowStart |-> now]
              /\ \A a \in DOMAIN rateLimits \ {ip} :
                    a \in DOMAIN rateLimits' /\ rateLimits'[a] = rateLimits[a]]_vars

\* a frame that arrived exactly RATE_LIMIT_WINDOW_MS after the start of its
\* address's window was counted in that window, and denied
C16_Witness ==
    /\ ev.kind = "message"
    /\ ~ev.allowed
    /\ "A" \in DOMAIN rateLimits
    /\ now = rateLimits["A"].windowStart + RATE_LIMIT_WINDOW_MS
    /\ rateLimits["A"].count = RATE_LIMIT_MESSAGES + 1
    /\ Len(msgLog["A"]) = RATE_LIMIT_MESSAGES + 1
    /\ msgLog["A"][1].at = rateLimits["A"].windowStart
    /\ msgLog["A"][RATE_LIMIT_MESSAGES + 1].at = now

\* C17: the step that retires a connection removes its record and its pending
\* timeout together, so a pending timeout always belongs to a registered
\* connection, and the timeout callback only ever runs for a connection that
\* is registered when it runs.
C17_RetireCancelsTimer ==
    /\ [](DOMAIN timeouts \subseteq DOMAIN connections)
    /\ [][\A c \in DOMAIN connections \ DOMAIN connections' :
            /\ c \notin DOMAIN timeouts'
            /\ ev'.kind \in {"close", "error"} /\ ev'.clientId = c]_vars
    /\ [][ev'.kind = "timeout" =>
            /\ ev'.known
            /\ ev'.clientId \in DOMAIN connections
            /\ ev'.clientId \in DOMAIN connections']_vars

\* two connections registered at the same time: the first was retired by its
\* error handler, and at the due time only the second one's timeout fired
C17_Witness ==
    /\ ev.kind = "timeout"
    /\ ev.clientId = 2
    /\ connections[2].connectedAt = startTime
    /\ 1 \notin DOMAIN connections
    /\ 1 \in DOMAIN clients
    /\ clients[1].state = "ERRORED"
    /\ DOMAIN timeouts = {}

\* C18: the handler of the termination signal clears both intervals in the
\* step in which it closes the sockets; an interval that is cleared is never
\* armed again.  So while the server is draining neither interval is armed:
\* no heartbeat frame is sent, and no sweep runs or changes rateLimits.
C18_TimersCancelledFirst ==
    /\ [](phase = "Draining" => ~heartbeatInterval /\ ~cleanupInterval)
    /\ [][ev'.kind = "sigterm" => ~heartbeatInterval' /\ ~cleanupInterval']_vars
    /\ [][/\ ~heartbeatInterval => ~heartbeatInterval'
          /\ ~cleanupInterval => ~cleanupInterval']_vars
    /\ [][phase = "Draining" =>
            /\ ev'.kind \notin {"heartbeat", "cleanup"}
            /\ \A ip \in DOMAIN rateLimits : ip \in DOMAIN rateLimits']_vars

\* the server is draining with a socket still closing, and a rate window that
\* a sweep would remove has become stale and is still in the map
C18_Witness ==
    /\ phase = "Draining"
    /\ ev.kind = "tick"
    /\ \E c \in DOMAIN clients : clients[c].closeCode = 1001
    /\ \E ip \in DOMAIN rateLimits :
          now - rateLimits[ip].windowStart = RATE_LIMIT_WINDOW_MS * 2 + 1

\* what C19 says of every step: a record leaves the registry only in a close
\* or error handler, with connectionCount decremented by exactly 1; an id that
\* was retired is never registered again; the error handler leaves the server
\* in the phase it was in; and every registered connection has a socket whose
\* 'close' is still to come.
C19_RetiredOnce ==
    /\ [](DOMAIN connections \subseteq DOMAIN clients)
    /\ [][\A c \in DOMAIN connections \ DOMAIN connections' :
            /\ ev'.kind \in {"close", "error"} /\ ev'.clientId = c
            /\ connectionCount' = connectionCount - 1
            /\ DOMAIN connections' = DOMAIN connections \ {c}]_vars
    /\ [][\A c \in 1..connectionIdCounter :
            c \notin DOMAIN connections => c \notin DOMAIN connections']_vars
    /\ [][ev'.kind = "error" => phase' = phase /\ phase' # "Stopped"]_vars

Stale == {ip \in DOMAIN rateLimits :
             now - rateLimits[ip].windowStart > 2 * RATE_LIMIT_WINDOW_MS}

\* C20: a sweep removes exactly the windows with now - windowStart >
\* 2 * RATE_LIMIT_WINDOW_MS and leaves every other window, and everything
\* else, as it was; after it every window left has now - windowStart <=
\* 2 * RATE_LIMIT_WINDOW_MS.
C20_SweepExact ==
    [][ev'.kind = "cleanup" =>
          /\ DOMAIN rateLimits' = DOMAIN rateLimits \ Stale
          /\ ev'.removed = Stale
          /\ \A ip \in DOMAIN rateLimits' :
                /\ rateLimits'[ip] = rateLimits[ip]
                /\ now' - rateLimits'[ip].windowStart <= 2 * RATE_LIMIT_WINDOW_MS
          /\ state' = [state EXCEPT ![5] = rateLimits']]_vars

\* a sweep removed the window of one address, older than two windows, and
\* kept the window of the other, exactly two windows old
C20_Witness ==
    /\ ev.kind = "cleanup"
    /\ ev.removed # {}
    /\ \E ip \in DOMAIN rateLimits :
          now - rateLimits[ip].windowStart = 2 * RATE_LIMIT_WINDOW_MS

\* C21: a heartbeat sends one heartbeat frame, with connectionCount and the
\* uptime, to every socket of wss.clients that is OPEN and to no other socket,
\* and changes nothing: the records with their messageCounts, connectionCount,
\* the rate windows, the sockets and the timers are as they were.
C21_HeartbeatEffect ==
    [][ev'.kind = "heartbeat" =>
          /\ ev'.to = {c \in DOMAIN clients : clients[c].state = "OPEN"}
          /\ \A c \in DOMAIN clients :
                clients[c].state \in {"CLOSING", "ERRORED"} => c \notin ev'.to
          /\ ev'.frame.type = "heartbeat"
          /\ ev'.frame.activeConnections = connectionCount
          /\ ev'.frame.uptime = now - startTime
          /\ connections' = connections
          /\ connectionCount' = connectionCount
          /\ rateLimits' = rateLimits
          /\ state' = state]_vars

\* a heartbeat went to the one open socket and not to the socket that is
\* closing after its timeout; a frame had been counted before
C21_Witness ==
    /\ ev.kind = "heartbeat"
    /\ ev.to = {2}
    /\ 1 \in DOMAIN clients
    /\ clients[1].state = "CLOSING"
    /\ clients[2].state = "OPEN"
    /\ connectionCount = 2
    /\ DOMAIN rateLimits # {}
    /\ \E c \in DOMAIN connections : connections[c].messageCount = 1

EchoedIn(ip, ws) ==
    {i \in 1..Len(msgLog[ip]) :
        /\ msgLog[ip][i].type = "echo"
        /\ RefWindow(msgLog[ip], i).start = ws}

\* C23: the frames of all the connections of one address are counted in one
\* window: at most RATE_LIMIT_MESSAGES of them are echoed in a window, whatever
\* connections they arrive on, and a frame is allowed only while the count of
\* its address, with it, is at most RATE_LIMIT_MESSAGES.  A frame changes the
\* record of the connection it arrived on only, its messageCount by at most
\* 1, and the window of its address only.
C23_SharedBudget ==
    /\ [](\A ip \in IPs : \A i \in 1..Len(msgLog[ip]) :
            Cardinality(EchoedIn(ip, RefWindow(msgLog[ip], i).start))
                <= RATE_LIMIT_MESSAGES)
    /\ [][\A c \in ClientIds, data \in Payloads :
            OnMessage(c, data) =>
                /\ ev'.allowed = (rateLimits'[clients[c].ip].count <= RATE_LIMIT_MESSAGES)
                /\ \A ip \in DOMAIN rateLimits \ {clients[c].ip} :
                      rateLimits'[ip] = rateLimits[ip]
                /\ DOMAIN connections' = DOMAIN connections
                /\ \A d \in DOMAIN connections \ {c} : connections'[d] = connections[d]
                /\ c \in DOMAIN connections =>
                      /\ connections'[c].messageCount
                            \in {connections[c].messageCount,
                                 connections[c].messageCount + 1}
                      /\ ~ev'.allowed =>
                            connections'[c].messageCount = connections[c].messageCount]_vars

\* two connections of one address had one frame echoed each, which used the
\* address's budget up, and the next frame of the address was denied
C23_Witness ==
    /\ ev.kind = "message"
    /\ ~ev.allowed
    /\ DOMAIN connections = {1, 2}
    /\ connections[1].ip = connections[2].ip
    /\ connections[1].messageCount = 1
    /\ connections[2].messageCount = 1
    /\ rateLimits[connections[1].ip].count = RATE_LIMIT_MESSAGES + 1

\* the window a limiter that is never swept holds for an address, given the
\* arrival times of the address's frames
NeverSwept(ip) ==
    LET w == RefWindow(msgLog[ip], Len(msgLog[ip])) IN
    [count |-> w.rank, windowStart |-> w.start]

\* C24: whatever sweeps have run, every frame is allowed exactly when a limiter
\* that is never swept allows it: when the frame is among the first
\* RATE_LIMIT_MESSAGES of its window, the windows computed from the arrival
\* times alone.  The window the map holds for an address is the window the
\* limiter that is never swept holds; an address with frames and no window
\* has a never-swept window so old that the next frame resets it.
C24_SweepTransparent ==
    /\ [](\A ip \in IPs :
            IF ip \in DOMAIN rateLimits
            THEN /\ Len(msgLog[ip]) > 0
                 /\ rateLimits[ip] = NeverSwept(ip)
            ELSE \/ Len(msgLog[ip]) = 0
                 \/ now - NeverSwept(ip).windowStart > RATE_LIMIT_WINDOW_MS)
    /\ [][\A c \in ClientIds, data \in Payloads :
            OnMessage(c, data) =>
                LET ip == clients[c].ip IN
                /\ Len(msgLog'[ip]) = Len(msgLog[ip]) + 1
                /\ ev'.allowed =
                      (RefWindow(msgLog'[ip], Len(msgLog'[ip])).rank
                          <= RATE_LIMIT_MESSAGES)]_vars

\* a sweep removed the window of an address that had used its budget up; the
\* address has a socket and its next frame is still to come
C24_Witness ==
    /\ ev.kind = "cleanup"
    /\ ev.removed = {"A"}
    /\ Len(msgLog["A"]) = RATE_LIMIT_MESSAGES
    /\ NeverSwept("A").count = RATE_LIMIT_MESSAGES
    /\ handled < TrMessages
    /\ \E c \in DOMAIN clients : clients[c].ip = "A"

====
